---------------------------- MODULE Spec2Model ----------------------------
(* Model of JiraSearchTicketComponent                                      *)
(* (custom_components/jira_ticket_search/JiraTicketSearchComponent.py).    *)
(*                                                                         *)
(* A string is a sequence of atoms.  An atom is one character of a caller   *)
(* input (" ", "p", the double quote), "P", or one literal chunk of an       *)
(* f-string template ("text ~ \"", "/rest/api/2/issue/", ...).  String     *)
(* concatenation is \o.  A JSON value is a tagged record: [t |-> "null"],   *)
(* [t |-> "str", v |-> <string>] or [t |-> "obj", v |-> <function>].        *)
EXTENDS Integers, Sequences, FiniteSets, TLC

VARIABLES
    search_type,          \* self.search_type
    max_results,          \* self.max_results
    include_comments,     \* self.include_comments
    include_attachments,  \* self.include_attachments
    tools,                \* the list build_tool returned, <<>> before the call
    pc,                   \* "idle", the request awaited, or "done"
    via,                  \* "none", "tool", "operation" or "normalize"
    op,                   \* the search operation in flight
    input,                \* the string the caller passed
    arg,                  \* the string the search operation received
    key,                  \* local `key` of _search_by_key after line 83
    inTry,                \* control is inside the try block of _search_by_key
    log,                  \* the HTTP requests issued so far, in order
    queue,                \* issues of the search response not yet processed
    cur,                  \* processed_ticket under construction
    results,              \* processed tickets so far
    outcome,              \* what the call returned or raised
    nNorm,                \* number of _process_ticket calls started
    rawArg                \* the raw ticket a direct _process_ticket call got

vars == <<search_type, max_results, include_comments, include_attachments,
          tools, pc, via, op, input, arg, key, inTry, log, queue, cur,
          results, outcome, nNorm, rawArg>>

config == <<search_type, max_results, include_comments, include_attachments>>

-----------------------------------------------------------------------------
(* Bounds of the model.                                                     *)

\* longest caller input, in characters
MaxLen == 3
\* most issues one search response carries
MaxIssues == 2

\* value= of the max_results input
DefaultMaxResults == 10

-----------------------------------------------------------------------------
(* Strings.                                                                 *)

Whitespace == {" "}
Chars == {" ", "p", "\""}

RECURSIVE StringsUpTo(_)
StringsUpTo(n) ==
    IF n = 0 THEN {<<>>}
    ELSE LET shorter == StringsUpTo(n - 1)
         IN  shorter \cup {Append(s, c) : s \in {t \in shorter : Len(t) = n - 1},
                                           c \in Chars}

Inputs == StringsUpTo(MaxLen)

RECURSIVE LStrip(_)
LStrip(s) ==
    IF s # <<>> /\ Head(s) \in Whitespace THEN LStrip(Tail(s)) ELSE s

RECURSIVE RStrip(_)
RStrip(s) ==
    IF s # <<>> /\ s[Len(s)] \in Whitespace
    THEN RStrip(SubSeq(s, 1, Len(s) - 1))
    ELSE s

\* str.strip()
Strip(s) == RStrip(LStrip(s))

UpperChar(c) == IF c = "p" THEN "P" ELSE c

\* str.upper()
Upper(s) == [i \in 1..Len(s) |-> UpperChar(s[i])]

-----------------------------------------------------------------------------
(* Configuration and the tool registry.                                     *)

SearchTypeOptions ==
    {"jql", "text", "key", "specific_id", "assignee", "reporter", "status", "all"}

Operations == SearchTypeOptions \ {"all"}

MaxResultsChoices == {1, DefaultMaxResults}

JiraInstance == "{jira_instance}"

ToolIf(st, tag, name) ==
    IF st \in {tag, "all"} THEN <<[name |-> name, op |-> tag]>> ELSE <<>>

\* build_tool with the name of the key tool pasted into the specific_id tool
build_tool_pasted_name(st) ==
    ToolIf(st, "jql", "Jira_Search_JQL")
    \o ToolIf(st, "text", "Jira_Search_Text")
    \o ToolIf(st, "key", "Jira_Search_Key")
    \o ToolIf(st, "specific_id", "Jira_Search_Key")
    \o ToolIf(st, "assignee", "Jira_Search_Assignee")
    \o ToolIf(st, "reporter", "Jira_Search_Reporter")
    \o ToolIf(st, "status", "Jira_Search_Status")

\* build_tool: the list of Tool objects, each a name and the operation its
\* lambda calls
build_tool(st) ==
    ToolIf(st, "jql", "Jira_Search_JQL")
    \o ToolIf(st, "text", "Jira_Search_Text")
    \o ToolIf(st, "key", "Jira_Search_Key")
    \o ToolIf(st, "specific_id", "Jira_Search_Specific_ID")
    \o ToolIf(st, "assignee", "Jira_Search_Assignee")
    \o ToolIf(st, "reporter", "Jira_Search_Reporter")
    \o ToolIf(st, "status", "Jira_Search_Status")

-----------------------------------------------------------------------------
(* JSON values and Python dict access.                                      *)

JNull == [t |-> "null"]
JStr(s) == [t |-> "str", v |-> s]
JNum(n) == [t |-> "num", v |-> n]
JObj(d) == [t |-> "obj", v |-> d]
JList(q) == [t |-> "list", v |-> q]

EmptyDict == <<>>

\* dict.get(k, default)
Get(d, k, default) == IF k \in DOMAIN d THEN d[k] ELSE default

\* Python truth value of a JSON value
Truthy(x) ==
    CASE x.t = "null" -> FALSE
      [] x.t = "str" -> Len(x.v) > 0
      [] x.t = "num" -> x.v # 0
      [] x.t = "obj" -> DOMAIN x.v # {}
      [] x.t = "list" -> Len(x.v) > 0

\* how an f-string renders a JSON string, number or None
Rendered(x) ==
    CASE x.t = "str" -> x.v
      [] x.t = "num" -> <<ToString(x.v)>>
      [] OTHER -> <<"None">>

-----------------------------------------------------------------------------
(* The remote service: the raw tickets and responses it can send.  A 200    *)
(* response carries JSON (the service contract); the model draws its status *)
(* and how many issues a search finds.                                      *)

PersonShapes ==
    {"absent", "null", "empty", "noname", "nullname", "blankname", "named"}

Person(shape, name) ==
    CASE shape = "null" -> JNull
      [] shape = "empty" -> JObj(EmptyDict)
      [] shape = "noname" -> JObj([accountId |-> JStr(<<"42">>)])
      [] shape = "nullname" -> JObj([displayName |-> JNull])
      [] shape = "blankname" -> JObj([displayName |-> JStr(<<>>)])
      [] shape = "named" -> JObj([displayName |-> JStr(<<name>>)])

PersonField(k, shape, name) ==
    IF shape = "absent" THEN EmptyDict ELSE k :> Person(shape, name)

ServerAttachments ==
    <<[filename |-> JStr(<<"log.txt">>), size |-> JNum(2048),
       created |-> JStr(<<"2024-01-03">>),
       content |-> JStr(<<"{jira_instance}/attachment/1">>)]>>

RawTicket(k, assignee, reporter) ==
    [key |-> JStr(k),
     fields |->
        [summary |-> JStr(<<"Summary">>),
         description |-> JStr(<<"Description">>),
         status |-> JObj([name |-> JStr(<<"Open">>)]),
         priority |-> JObj([name |-> JStr(<<"High">>)]),
         created |-> JStr(<<"2024-01-01">>),
         updated |-> JStr(<<"2024-01-02">>),
         attachment |-> JList(ServerAttachments)]
        @@ PersonField("assignee", assignee, "Alice")
        @@ PersonField("reporter", reporter, "Bob")]

RawTickets ==
    {RawTicket(<<"T-", "1">>, a, r) : a \in PersonShapes, r \in PersonShapes}

\* the i-th issue the service holds
ServerTicket(i) ==
    RawTicket(<<"T-", ToString(i)>>,
              IF i % 2 = 1 THEN "named" ELSE "absent", "named")

ServerIssues(n) == [i \in 1..n |-> ServerTicket(i)]

ServerComments ==
    <<[author |-> JObj([displayName |-> JStr(<<"Carol">>)]),
       created |-> JStr(<<"2024-01-04">>),
       body |-> JStr(<<"Looks good">>)],
      [created |-> JStr(<<"2024-01-05">>),
       body |-> JStr(<<"Done">>)]>>

NoJson == EmptyDict

OkResponse(json) == [status |-> 200, text |-> "<json>", json |-> json]

FailResponses ==
    {[status |-> 404, text |-> "Issue Does Not Exist", json |-> NoJson],
     [status |-> 500, text |-> "Internal Server Error", json |-> NoJson]}

SearchResponses ==
    {OkResponse([issues |-> ServerIssues(n)]) : n \in 0..MaxIssues}
    \cup FailResponses

IssueResponses == {OkResponse(ServerTicket(1))} \cup FailResponses

CommentResponses ==
    {OkResponse([comments |-> ServerComments])} \cup FailResponses

-----------------------------------------------------------------------------
(* The HTTP client.                                                         *)

NoParams == [present |-> FALSE, jql |-> <<>>, maxResults |-> 0]
NoResponse == [status |-> 0, text |-> "", json |-> NoJson]
NoReturn == [kind |-> "none", status |-> 0, text |-> "", parsed |-> FALSE,
             value |-> NoJson]

\* one requests.get call: where it goes, which _process_ticket call issued
\* it (0: none), and, once answered, the response and what _make_request
\* did with it
Request(kind, url, params, norm) ==
    [kind |-> kind, url |-> url, params |-> params, norm |-> norm,
     answered |-> FALSE, resp |-> NoResponse, ret |-> NoReturn]

\* _make_request calling response.json() before it looks at the status, and
\* raising without the body
make_request_parses_first(r) ==
    IF r.status # 200
    THEN [kind |-> "raise", status |-> r.status, text |-> "",
          parsed |-> TRUE, value |-> NoJson]
    ELSE [kind |-> "return", status |-> 0, text |-> "", parsed |-> TRUE,
          value |-> r.json]

\* _make_request after requests.get returned r: raise ValueError built from
\* status_code and text, or return response.json()
make_request(r) ==
    IF r.status # 200
    THEN [kind |-> "raise", status |-> r.status, text |-> r.text,
          parsed |-> FALSE, value |-> NoJson]
    ELSE [kind |-> "return", status |-> 0, text |-> "", parsed |-> TRUE,
          value |-> r.json]

\* the log with its last request answered by r
Answered(lg, r) ==
    [lg EXCEPT ![Len(lg)] =
        [@ EXCEPT !.answered = TRUE, !.resp = r, !.ret = make_request(r)]]

-----------------------------------------------------------------------------
(* Query building and request construction.                                 *)

SearchUrl == <<JiraInstance, "/rest/api/2/search">>
IssueUrl(k) == <<JiraInstance, "/rest/api/2/issue/">> \o k
CommentUrl(k) == <<JiraInstance, "/rest/api/2/issue/">> \o k \o <<"/comment">>
BrowseUrl(k) == <<JiraInstance, "/browse/">> \o k

\* _search_by_jql up to its call of _make_request
SearchRequest(jql_query) ==
    Request("search", SearchUrl,
            [present |-> TRUE, jql |-> jql_query, maxResults |-> max_results],
            0)

RECURSIVE Escaped(_)
Escaped(a) ==
    IF a = <<>> THEN <<>>
    ELSE (IF Head(a) = "\"" THEN <<"\\", "\"">> ELSE <<Head(a)>>)
         \o Escaped(Tail(a))

\* the query expressions with the quotes of the input escaped and the input
\* trimmed
JqlForEscaped(o, a) ==
    CASE o = "jql" -> Strip(a)
      [] o = "text" -> <<"text ~ \"">> \o Escaped(a) \o <<"\"">>
      [] o = "assignee" -> <<"assignee = \"">> \o Escaped(a) \o <<"\"">>
      [] o = "reporter" -> <<"reporter = \"">> \o Escaped(a) \o <<"\"">>
      [] o = "status" -> <<"status = \"">> \o Escaped(a) \o <<"\"">>

\* the query expression each non-key operation hands to _search_by_jql
JqlFor(o, a) ==
    CASE o = "jql" -> a
      [] o = "text" -> <<"text ~ \"">> \o a \o <<"\"">>
      [] o = "assignee" -> <<"assignee = \"">> \o a \o <<"\"">>
      [] o = "reporter" -> <<"reporter = \"">> \o a \o <<"\"">>
      [] o = "status" -> <<"status = \"">> \o a \o <<"\"">>

\* _search_by_specific_id also dropping a pair of quotes around the id
TicketIdOfUnquoted(ticket_id) ==
    LET t == Strip(ticket_id)
    IN  IF Len(t) >= 2 /\ t[1] = "\"" /\ t[Len(t)] = "\""
        THEN Upper(SubSeq(t, 2, Len(t) - 1))
        ELSE Upper(t)

\* _search_by_specific_id line 99
TicketIdOf(ticket_id) == Upper(Strip(ticket_id))

\* _search_by_key upper-casing without trimming
KeyOfNoStrip(k) == Upper(k)

\* _search_by_key line 83
KeyOf(k) == Upper(Strip(k))

\* the value of local `key` in _search_by_key when operation o is called
\* with a
KeyLocal(o, a) == IF o = "specific_id" THEN KeyOf(TicketIdOf(a)) ELSE KeyOf(a)

\* _search_by_key line 93
KeyJql(k) == <<"key = \"">> \o k \o <<"\"">>

-----------------------------------------------------------------------------
(* The result normalizer.                                                   *)

NoTicket == EmptyDict
NoOutcome ==
    [kind |-> "none", status |-> 0, text |-> "", value |-> <<>>,
     output |-> <<>>]

\* the `X.get("displayName") if fields.get(name) else sentinel` expressions
PersonName(fields, name, sentinel) ==
    IF Truthy(Get(fields, name, JNull))
    THEN Get(Get(fields, name, JObj(EmptyDict)).v, "displayName", JNull)
    ELSE JStr(<<sentinel>>)

\* fields.get(name, {}).get("name")
NameOf(fields, name) ==
    Get(Get(fields, name, JObj(EmptyDict)).v, "name", JNull)

\* _process_ticket lines 177-191: the dict built before any enrichment
ProcessFields(ticket) ==
    LET ticket_key == Get(ticket, "key", JNull)
        fields == Get(ticket, "fields", EmptyDict)
    IN  [key |-> ticket_key,
         summary |-> Get(fields, "summary", JNull),
         description |-> Get(fields, "description", JNull),
         status |-> NameOf(fields, "status"),
         priority |-> NameOf(fields, "priority"),
         assignee |-> PersonName(fields, "assignee", "Unassigned"),
         reporter |-> PersonName(fields, "reporter", "Unknown"),
         created |-> Get(fields, "created", JNull),
         updated |-> Get(fields, "updated", JNull),
         url |-> JStr(BrowseUrl(Rendered(ticket_key)))]

\* _get_comments lines 146-154
FlattenComments(json) ==
    LET cs == Get(json, "comments", <<>>)
    IN  [i \in 1..Len(cs) |->
            [author |-> Get(Get(cs[i], "author", JObj(EmptyDict)).v,
                            "displayName", JStr(<<"Unknown">>)),
             created |-> Get(cs[i], "created", JNull),
             body |-> Get(cs[i], "body", JNull)]]

\* _get_attachments lines 164-173
FlattenAttachments(json) ==
    LET as == Get(Get(json, "fields", EmptyDict), "attachment", JList(<<>>)).v
    IN  [i \in 1..Len(as) |->
            [filename |-> Get(as[i], "filename", JNull),
             size |-> Get(as[i], "size", JNull),
             created |-> Get(as[i], "created", JNull),
             url |-> Get(as[i], "content", JNull)]]

\* _get_comments up to its call of _make_request, for the n-th
\* _process_ticket call
CommentRequest(ticket_key, n) ==
    Request("comments", CommentUrl(Rendered(ticket_key)), NoParams, n)

\* _get_attachments up to its call of _make_request
AttachmentRequest(ticket_key, n) ==
    Request("attachments", IssueUrl(Rendered(ticket_key)), NoParams, n)

-----------------------------------------------------------------------------
(* The formatter.  Every body the service sends is shorter than 100         *)
(* characters, so body[:100] is the body.                                   *)

RECURSIVE JoinWith(_, _)
\* sep.join(parts)
JoinWith(sep, parts) ==
    IF parts = <<>> THEN <<>>
    ELSE IF Len(parts) = 1 THEN parts[1]
    ELSE parts[1] \o <<sep>> \o JoinWith(sep, Tail(parts))

FormatComment(c) ==
    <<"  - ">> \o Rendered(c.author) \o <<" (">> \o Rendered(c.created)
    \o <<"): ">> \o Rendered(c.body) \o <<"...">>

FormatAttachment(a) ==
    <<"  - ">> \o Rendered(a.filename) \o <<" (">> \o Rendered(a.size)
    \o <<" bytes)">>

\* _format_search_results lines 218-239, one ticket
FormatTicket(ticket) ==
    LET comments == Get(ticket, "comments", <<>>)
        attachments == Get(ticket, "attachments", <<>>)
        ticket_info ==
            <<<<"Key: ">> \o Rendered(ticket.key),
              <<"Summary: ">> \o Rendered(ticket.summary),
              <<"Status: ">> \o Rendered(ticket.status),
              <<"Assignee: ">> \o Rendered(ticket.assignee),
              <<"Reporter: ">> \o Rendered(ticket.reporter),
              <<"URL: ">> \o Rendered(ticket.url)>>
        comments_info ==
            IF include_comments /\ comments # <<>>
            THEN <<JoinWith("\n",
                     <<<<"Comments:">>>>
                     \o [i \in 1..Len(comments) |-> FormatComment(comments[i])])>>
            ELSE <<>>
        attachments_info ==
            IF include_attachments /\ attachments # <<>>
            THEN <<JoinWith("\n",
                     <<<<"Attachments:">>>>
                     \o [i \in 1..Len(attachments) |->
                            FormatAttachment(attachments[i])])>>
            ELSE <<>>
    IN  JoinWith("\n", ticket_info \o comments_info \o attachments_info)

\* _format_search_results
format_search_results(rs) ==
    IF rs = <<>> THEN <<"No tickets found.">>
    ELSE JoinWith("\n\n", [i \in 1..Len(rs) |-> FormatTicket(rs[i])])

-----------------------------------------------------------------------------
(* Control flow of one call, from one awaited request to the next.  Each    *)
(* operator yields the values of the variables a step changes.              *)

St(p, try, lg, q, c, rs, out, n) ==
    [pc |-> p, inTry |-> try, log |-> lg, queue |-> q, cur |-> c,
     results |-> rs, outcome |-> out, nNorm |-> n]

\* the call returns the list rs; the func of a tool returns it formatted
Return(lg, rs, n) ==
    St("done", FALSE, lg, <<>>, NoTicket, <<>>,
       [kind |-> "return", status |-> 0, text |-> "", value |-> rs,
        output |-> IF via = "tool" THEN format_search_results(rs) ELSE <<>>],
       n)

\* the ValueError of _make_request leaves the call
Raise(lg, ret, n) ==
    St("done", FALSE, lg, <<>>, NoTicket, <<>>,
       [kind |-> "raise", status |-> ret.status, text |-> ret.text,
        value |-> <<>>, output |-> <<>>], n)

\* _search_by_key without its except branch: the error propagates
FallbackPropagates(lg, ret, n) == Raise(lg, ret, n)

\* _search_by_key lines 90-94: the except branch
Fallback(lg, ret, n) ==
    St("search", FALSE, Append(lg, SearchRequest(KeyJql(key))), <<>>,
       NoTicket, <<>>, NoOutcome, n)

\* the fallback taken whenever the first request of a call fails
OnFailureOfFirstRequest(lg, ret, try, n) ==
    IF try \/ Len(lg) = 1 THEN Fallback(lg, ret, n) ELSE Raise(lg, ret, n)

\* an exception raised by _make_request: caught at line 90 when control is
\* inside the try block, propagated to the caller otherwise
OnFailure(lg, ret, try, n) ==
    IF try THEN Fallback(lg, ret, n) ELSE Raise(lg, ret, n)

RECURSIVE NextIssue(_, _, _, _)

\* _process_ticket returns pt: line 89 (inside try) or line 206
EndTicket(pt, lg, q, rs, try, n) ==
    IF try THEN Return(lg, <<pt>>, n) ELSE NextIssue(lg, q, Append(rs, pt), n)

\* _process_ticket fetching attachments whatever include_attachments is
AfterCommentsUngated(pt, lg, q, rs, try, n) ==
    St("attachments", try, Append(lg, AttachmentRequest(pt.key, n)), q, pt,
       rs, NoOutcome, n)

\* _process_ticket lines 196-199; the outer test is line 196, the inner one
\* the early return of _get_attachments, line 158
AfterComments(pt, lg, q, rs, try, n) ==
    IF include_attachments
    THEN IF include_attachments
         THEN St("attachments", try,
                 Append(lg, AttachmentRequest(pt.key, n)), q, pt, rs,
                 NoOutcome, n)
         ELSE EndTicket(("attachments" :> <<>>) @@ pt, lg, q, rs, try, n)
    ELSE EndTicket(pt, lg, q, rs, try, n)

\* _process_ticket lines 177-194, the n+1-st call; the outer test is line
\* 193, the inner one the early return of _get_comments, line 140
StartTicket(ticket, lg, q, rs, try, n) ==
    LET pt == ProcessFields(ticket)
    IN  IF include_comments
        THEN IF include_comments
             THEN St("comments", try,
                     Append(lg, CommentRequest(pt.key, n + 1)), q, pt, rs,
                     NoOutcome, n + 1)
             ELSE AfterComments(("comments" :> <<>>) @@ pt, lg, q, rs, try,
                                n + 1)
        ELSE AfterComments(pt, lg, q, rs, try, n + 1)

\* _process_search_results lines 205-208: the loop over the issues left
NextIssue(lg, q, rs, n) ==
    IF q = <<>> THEN Return(lg, rs, n)
    ELSE StartTicket(Head(q), lg, Tail(q), rs, FALSE, n)

\* the operation o called with a, up to its first request
StartOperation(o, a) ==
    IF o \in {"key", "specific_id"}
    THEN St("direct", TRUE,
            <<Request("direct", IssueUrl(KeyLocal(o, a)), NoParams, 0)>>,
            <<>>, NoTicket, <<>>, NoOutcome, 0)
    ELSE St("search", FALSE, <<SearchRequest(JqlFor(o, a))>>,
            <<>>, NoTicket, <<>>, NoOutcome, 0)

\* _search_by_key lines 88-89 once the direct lookup is answered
DirectLookupStep(r) ==
    LET lg == Answered(log, r)
        ret == make_request(r)
    IN  IF ret.kind = "raise" THEN OnFailure(lg, ret, inTry, nNorm)
        ELSE StartTicket(ret.value, lg, <<>>, <<>>, inTry, nNorm)

\* _search_by_jql lines 72-73 once the search is answered
SearchStep(r) ==
    LET lg == Answered(log, r)
        ret == make_request(r)
    IN  IF ret.kind = "raise" THEN OnFailure(lg, ret, inTry, nNorm)
        ELSE NextIssue(lg, Get(ret.value, "issues", <<>>), <<>>, nNorm)

\* _get_comments lines 144-154 and _process_ticket line 194
CommentsStep(r) ==
    LET lg == Answered(log, r)
        ret == make_request(r)
    IN  IF ret.kind = "raise" THEN OnFailure(lg, ret, inTry, nNorm)
        ELSE AfterComments(("comments" :> FlattenComments(ret.value)) @@ cur,
                           lg, queue, results, inTry, nNorm)

\* _get_attachments lines 162-173 and _process_ticket line 197
AttachmentsStep(r) ==
    LET lg == Answered(log, r)
        ret == make_request(r)
    IN  IF ret.kind = "raise" THEN OnFailure(lg, ret, inTry, nNorm)
        ELSE EndTicket(("attachments" :> FlattenAttachments(ret.value)) @@ cur,
                       lg, queue, results, inTry, nNorm)

-----------------------------------------------------------------------------
(* Actions.                                                                 *)

Apply(s) ==
    /\ pc' = s.pc
    /\ inTry' = s.inTry
    /\ log' = s.log
    /\ queue' = s.queue
    /\ cur' = s.cur
    /\ results' = s.results
    /\ outcome' = s.outcome
    /\ nNorm' = s.nNorm

\* the host framework calls build_tool
BuildTool ==
    /\ pc = "idle"
    /\ tools' = build_tool(search_type)
    /\ UNCHANGED <<config, pc, via, op, input, arg, key, inTry, log, queue,
                   cur, results, outcome, nNorm, rawArg>>

\* the agent calls the func of tools[i] with input_str = x
InvokeTool(i, x) ==
    /\ pc = "idle"
    /\ i \in 1..Len(tools)
    /\ via' = "tool"
    /\ op' = tools[i].op
    /\ input' = x
    /\ arg' = Strip(x)
    /\ key' = IF tools[i].op \in {"key", "specific_id"}
              THEN KeyLocal(tools[i].op, Strip(x)) ELSE <<>>
    /\ Apply(StartOperation(tools[i].op, Strip(x)))
    /\ UNCHANGED <<config, tools, rawArg>>

\* a search operation is called directly with x
CallOperation(o, x) ==
    /\ pc = "idle"
    /\ via' = "operation"
    /\ op' = o
    /\ input' = x
    /\ arg' = x
    /\ key' = IF o \in {"key", "specific_id"} THEN KeyLocal(o, x) ELSE <<>>
    /\ Apply(StartOperation(o, x))
    /\ UNCHANGED <<config, tools, rawArg>>

\* _process_ticket is called directly with the raw ticket t
CallProcessTicket(t) ==
    /\ pc = "idle"
    /\ via' = "normalize"
    /\ op' = "none"
    /\ input' = <<>>
    /\ arg' = <<>>
    /\ key' = <<>>
    /\ rawArg' = t
    /\ Apply(StartTicket(t, <<>>, <<>>, <<>>, FALSE, 0))
    /\ UNCHANGED <<config, tools>>

DirectLookupResponse(r) ==
    /\ pc = "direct"
    /\ Apply(DirectLookupStep(r))
    /\ UNCHANGED <<config, tools, via, op, input, arg, key, rawArg>>

SearchResponse(r) ==
    /\ pc = "search"
    /\ Apply(SearchStep(r))
    /\ UNCHANGED <<config, tools, via, op, input, arg, key, rawArg>>

CommentsResponse(r) ==
    /\ pc = "comments"
    /\ Apply(CommentsStep(r))
    /\ UNCHANGED <<config, tools, via, op, input, arg, key, rawArg>>

AttachmentsResponse(r) ==
    /\ pc = "attachments"
    /\ Apply(AttachmentsStep(r))
    /\ UNCHANGED <<config, tools, via, op, input, arg, key, rawArg>>

\* the call is over; nothing of it is kept
Finish ==
    /\ pc = "done"
    /\ via' = "none"
    /\ op' = "none"
    /\ input' = <<>>
    /\ arg' = <<>>
    /\ key' = <<>>
    /\ rawArg' = NoTicket
    /\ Apply(St("idle", FALSE, <<>>, <<>>, NoTicket, <<>>, NoOutcome, 0))
    /\ UNCHANGED <<config, tools>>

Respond ==
    \/ \E r \in IssueResponses : DirectLookupResponse(r)
    \/ \E r \in SearchResponses : SearchResponse(r)
    \/ \E r \in CommentResponses : CommentsResponse(r)
    \/ \E r \in IssueResponses : AttachmentsResponse(r)

Idle ==
    /\ pc = "idle"
    /\ via = "none"
    /\ op = "none"
    /\ input = <<>>
    /\ arg = <<>>
    /\ key = <<>>
    /\ inTry = FALSE
    /\ log = <<>>
    /\ queue = <<>>
    /\ cur = NoTicket
    /\ results = <<>>
    /\ outcome = NoOutcome
    /\ nNorm = 0
    /\ rawArg = NoTicket
    /\ tools = <<>>

\* a configured component whose tools the agent invokes
Init ==
    /\ search_type \in SearchTypeOptions
    /\ max_results \in MaxResultsChoices
    /\ include_comments \in BOOLEAN
    /\ include_attachments \in BOOLEAN
    /\ Idle

Next ==
    \/ BuildTool
    \/ \E i \in DOMAIN tools, x \in Inputs : InvokeTool(i, x)
    \/ Respond
    \/ Finish

Spec == Init /\ [][Next]_vars

\* a component with the default search type whose operations are called
\* directly
InitOps ==
    /\ search_type = "all"
    /\ max_results \in MaxResultsChoices
    /\ include_comments \in BOOLEAN
    /\ include_attachments \in BOOLEAN
    /\ Idle

NextOps ==
    \/ \E o \in Operations, x \in Inputs : CallOperation(o, x)
    \/ \E t \in RawTickets : CallProcessTicket(t)
    \/ Respond
    \/ Finish

SpecOps == InitOps /\ [][NextOps]_vars

-----------------------------------------------------------------------------
(* Properties.                                                              *)

KeyOperations == {"key", "specific_id"}

Failed(e) == e.answered /\ e.resp.status # 200
Succeeded(e) == e.answered /\ e.resp.status = 200
SearchesIn(lg) == {i \in 1..Len(lg) : lg[i].kind = "search"}

\* the direct lookup of a key or specific_id call was answered 404
DirectNotFound ==
    /\ Len(log) >= 1
    /\ log[1].kind = "direct"
    /\ log[1].answered
    /\ log[1].resp.status = 404

\* C1 as amended: after a 404 to the direct lookup exactly one fallback
\* search request follows it, and an error reaches the caller only if that
\* search request or an enrichment request made for one of its issues
\* fails.
C1_FallbackAfterNotFound ==
    DirectNotFound =>
        /\ SearchesIn(log) = {2}
        /\ outcome.kind = "raise" =>
              /\ Failed(log[Len(log)])
              /\ log[Len(log)].kind \in {"search", "comments", "attachments"}
              /\ \A i \in 2..(Len(log) - 1) : Succeeded(log[i])

\* C1 witness: a 404, then the fallback search finds the ticket and the
\* call returns it
C1_Witness ==
    /\ DirectNotFound
    /\ pc = "done"
    /\ outcome.kind = "return"
    /\ Len(outcome.value) = 1
    /\ Cardinality(SearchesIn(log)) = 1

\* C1 as stated: after a 404 to the direct lookup exactly one fallback
\* search request follows, and an error reaches the caller only if that
\* search request itself fails.
C1_Original ==
    DirectNotFound =>
        /\ SearchesIn(log) = {2}
        /\ outcome.kind = "raise" => Failed(log[2])

\* C2: a response whose status is not 200 makes the request raise an error
\* carrying that status and the raw body, without parsing the body; a 200
\* response makes it return the parsed JSON.  An error that reaches the
\* caller carries the status and body of the failed response.
C2_NonSuccessRaises ==
    /\ \A i \in 1..Len(log) :
          log[i].answered =>
             IF log[i].resp.status # 200
             THEN /\ log[i].ret.kind = "raise"
                  /\ log[i].ret.status = log[i].resp.status
                  /\ log[i].ret.text = log[i].resp.text
                  /\ ~log[i].ret.parsed
             ELSE /\ log[i].ret.kind = "return"
                  /\ log[i].ret.parsed
                  /\ log[i].ret.value = log[i].resp.json
    /\ outcome.kind = "raise" =>
          /\ outcome.status = log[Len(log)].resp.status
          /\ outcome.text = log[Len(log)].resp.text
          /\ outcome.status # 200

\* C2 witness: a call that saw a 200 and then raised on a 500
C2_Witness ==
    /\ outcome.kind = "raise"
    /\ outcome.status = 500
    /\ outcome.text = "Internal Server Error"
    /\ \E i \in 1..Len(log) : Succeeded(log[i])

BothEnabled == include_comments /\ include_attachments

\* C3 as amended: with comments and attachments enabled, a call that has
\* started N ticket normalizations has issued at most 1 + 2N requests when
\* it is a jql, text, assignee, reporter or status search, and at most
\* 2 + 2N when it is a key or specific_id lookup (the direct lookup and the
\* fallback search).
C3_RequestBound ==
    (BothEnabled /\ via \in {"tool", "operation"}) =>
        Len(log) <= (IF op \in KeyOperations THEN 2 ELSE 1) + 2 * nNorm

\* C3 witness: a key lookup that reaches 2 + 2N requests with N = 2
C3_Witness ==
    /\ BothEnabled
    /\ via = "tool"
    /\ op = "key"
    /\ pc = "done"
    /\ nNorm = 2
    /\ Len(log) = 2 + 2 * nNorm

\* C3 as stated: with comments and attachments enabled, a finished call
\* that normalized N tickets has issued at most 1 + 2N requests, whatever
\* the search type.
C3_Original ==
    (BothEnabled /\ via \in {"tool", "operation"} /\ pc = "done") =>
        Len(log) <= 1 + 2 * nNorm

\* C4: build_tool registers 7 tools with pairwise distinct names, one per
\* search-type tag, when the search type is all, and exactly the tool of
\* the tag when the search type is a single tag.
C4_ToolRegistry ==
    tools # <<>> =>
        IF search_type = "all"
        THEN /\ Len(tools) = 7
             /\ \A i, j \in 1..Len(tools) :
                   tools[i].name = tools[j].name => i = j
             /\ {tools[i].op : i \in 1..Len(tools)} = Operations
        ELSE /\ Len(tools) = 1
             /\ tools[1].op = search_type

\* C4 witness: the seven tools of search type all
C4_Witness ==
    /\ search_type = "all"
    /\ Len(tools) = 7
    /\ tools[4].name = "Jira_Search_Specific_ID"

\* the processed ticket of a direct _process_ticket call, once built
ProcessedNow ==
    IF pc = "done" /\ outcome.kind = "return" THEN outcome.value
    ELSE IF pc \in {"comments", "attachments"} THEN <<cur>>
    ELSE <<>>

NonEmptyString(x) == x.t = "str" /\ Len(x.v) > 0

MissingIn(ticket, name) ==
    \/ name \notin DOMAIN ticket.fields
    \/ ticket.fields[name].t = "null"

\* C5: the normalized assignee is "Unassigned" when the raw assignee is
\* missing and the normalized reporter is "Unknown" when the raw reporter
\* is missing, and both are always non-empty strings, whatever the raw
\* assignee and reporter objects hold.
C5_SentinelsNeverEmpty ==
    via = "normalize" =>
        \A i \in 1..Len(ProcessedNow) :
            LET pt == ProcessedNow[i]
            IN  /\ MissingIn(rawArg, "assignee") =>
                      pt.assignee = JStr(<<"Unassigned">>)
                /\ MissingIn(rawArg, "reporter") =>
                      pt.reporter = JStr(<<"Unknown">>)
                /\ NonEmptyString(pt.assignee)
                /\ NonEmptyString(pt.reporter)

\* C5, the part the code keeps: a missing assignee or reporter becomes the
\* sentinel
C5_MissingBecomesSentinel ==
    via = "normalize" =>
        \A i \in 1..Len(ProcessedNow) :
            LET pt == ProcessedNow[i]
            IN  /\ MissingIn(rawArg, "assignee") =>
                      pt.assignee = JStr(<<"Unassigned">>)
                /\ MissingIn(rawArg, "reporter") =>
                      pt.reporter = JStr(<<"Unknown">>)

\* C6: search_by_key trims and upper-cases its identifier, and that one
\* normalized identifier is the last path segment of the direct lookup and
\* the quoted operand of the fallback expression key = "<identifier>".
C6_KeyNormalized ==
    (op = "key" /\ Len(log) >= 1) =>
        /\ key = Upper(Strip(arg))
        /\ log[1].kind = "direct"
        /\ log[1].url = <<JiraInstance, "/rest/api/2/issue/">> \o Upper(Strip(arg))
        /\ ~log[1].params.present
        /\ \A i \in SearchesIn(log) :
              log[i].params.jql = <<"key = \"">> \o Upper(Strip(arg)) \o <<"\"">>

\* C6 witness: " p " looked up as P, then searched as key = "P"
C6_Witness ==
    /\ op = "key"
    /\ arg = <<" ", "p", " ">>
    /\ Len(log) >= 2
    /\ log[1].url = <<JiraInstance, "/rest/api/2/issue/", "P">>
    /\ log[2].kind = "search"
    /\ log[2].params.jql = <<"key = \"", "P", "\"">>

\* the documented template of a non-key search type
Template(o, a) ==
    CASE o = "jql" -> a
      [] o = "text" -> <<"text ~ \"">> \o a \o <<"\"">>
      [] o = "assignee" -> <<"assignee = \"">> \o a \o <<"\"">>
      [] o = "reporter" -> <<"reporter = \"">> \o a \o <<"\"">>
      [] o = "status" -> <<"status = \"">> \o a \o <<"\"">>

C8_OnlyDirectLookupRecovered ==
    \A i \in 1..Len(log) :
        (Failed(log[i]) /\ log[i].kind # "direct") =>
            /\ i = Len(log)
            /\ pc = "done"
            /\ outcome.kind = "raise"

\* C8, the part the code keeps: a failed search request, or a failed
\* enrichment request made for an issue of a search response, ends the call
\* with an error and nothing is requested after it
C8_FailureOutsideTryIsFatal ==
    \A i \in 1..Len(log) :
        (/\ Failed(log[i])
         /\ \/ log[i].kind = "search"
            \/ \E j \in 1..(i - 1) : log[j].kind = "search") =>
            /\ i = Len(log)
            /\ pc = "done"
            /\ outcome.kind = "raise"

Enrichment(e) == e.kind \in {"comments", "attachments"}

C10_SpecificIdAsKey ==
    (op = "specific_id" /\ Len(log) >= 1) =>
        /\ key = KeyLocal("key", arg)
        /\ key = TicketIdOf(arg)
        /\ log[1].kind = "direct"
        /\ log[1].url = IssueUrl(KeyLocal("key", arg))
        /\ ~log[1].params.present
        /\ \A i \in SearchesIn(log) :
              /\ log[i].params.jql = KeyJql(KeyLocal("key", arg))
              /\ log[i].params.maxResults = max_results

\* C10 witness: search_by_specific_id on " p", where search_by_key gets
\* the identifier P, already trimmed and upper-cased, and falls back
C10_Witness ==
    /\ op = "specific_id"
    /\ arg = <<" ", "p">>
    /\ TicketIdOf(arg) = <<"P">>
    /\ key = <<"P">>
    /\ Len(log) >= 2
    /\ log[2].kind = "search"

=============================================================================
